---- MODULE Spec2Model ----
(***************************************************************************)
(* Model of backend/app.py: a Flask chat backend that keeps its state in   *)
(* two CSV files (data/users.csv, data/messages.csv) and a directory of    *)
(* uploaded blobs (data/uploads), all read and written through pandas.     *)
(*                                                                         *)
(* A text (a str of the program, a cell of a CSV file) is a sequence of    *)
(* one-character strings, so that the text functions of the code (rsplit,  *)
(* lower, the CSV type inference of pandas.read_csv) are computed and not  *)
(* assumed.  A CSV file is the sequence of its data rows, each row a       *)
(* record of texts; the header row is fixed and only counted in the size.  *)
(***************************************************************************)
EXTENDS Integers, Sequences, FiniteSets, TLC

(***************************************************************************)
(* Bounds of the model.                                                    *)
(***************************************************************************)
\* number of request handlers that may be in progress at once under Spec
NumProcs == 2
\* rows register will still add to data/users.csv
MaxUsers == 2
\* rows send_message / upload_image will still add to data/messages.csv
MaxMessages == 2
\* readings of datetime.now() in one behaviour
MaxClock == 4

(***************************************************************************)
(* Texts.                                                                  *)
(***************************************************************************)
Digits == {"0", "1", "2", "3", "4", "5", "6", "7", "8", "9"}

\* The character that shows clock reading n in a timestamp text.
DigitChar(n) ==
    CASE n = 0 -> "0" [] n = 1 -> "1" [] n = 2 -> "2" [] n = 3 -> "3"
      [] n = 4 -> "4" [] n = 5 -> "5" [] n = 6 -> "6" [] n = 7 -> "7"
      [] n = 8 -> "8" [] OTHER -> "9"

\* str.lower() on one character (the upper-case letters of the model's alphabet).
LowerChar(c) ==
    CASE c = "P" -> "p" [] c = "N" -> "n" [] c = "G" -> "g" [] c = "A" -> "a"
      [] c = "T" -> "t" [] c = "X" -> "x" [] OTHER -> c

\* str.lower()
Lower(t) == [i \in 1..Len(t) |-> LowerChar(t[i])]

\* The positions of character c in text t.
Positions(t, c) == {i \in 1..Len(t) : t[i] = c}

\* The largest element of a non-empty set of integers.
MaxOf(S) == CHOOSE x \in S : \A y \in S : y <= x

RECURSIVE StripLeadingZeros(_)
StripLeadingZeros(t) ==
    IF Len(t) > 1 /\ Head(t) = "0" THEN StripLeadingZeros(Tail(t)) ELSE t

RECURSIVE StripTrailingZeros(_)
StripTrailingZeros(t) ==
    IF Len(t) > 0 /\ t[Len(t)] = "0"
    THEN StripTrailingZeros(SubSeq(t, 1, Len(t) - 1))
    ELSE t

(***************************************************************************)
(* pandas.read_csv / DataFrame.to_csv.                                     *)
(*                                                                         *)
(* read_csv infers one dtype per column from the texts of its cells:       *)
(* a cell whose text is one of the default NA markers is missing (NaN); a  *)
(* column whose cells are all integers is int64; a column of integers,     *)
(* decimals and missing cells is float64; any other column is object and   *)
(* keeps its texts as str.  to_csv writes an int64 without leading zeros,  *)
(* a float64 in repr form (7.0), NaN and None as the empty text and a str  *)
(* as it is.  A value in memory is [k |-> its kind, t |-> the text to_csv  *)
(* writes for it].  (Signs, exponents, booleans and quoting are outside    *)
(* the model's alphabet.)                                                  *)
(***************************************************************************)
\* The default na_values of read_csv that the model's alphabet can spell.
NA_VALUES == {<<>>, <<"N", "A">>}

IsIntText(t) == Len(t) > 0 /\ \A i \in 1..Len(t) : t[i] \in Digits

IsFloatText(t) ==
    /\ Len(t) > 1
    /\ Cardinality(Positions(t, ".")) = 1
    /\ \A i \in 1..Len(t) : t[i] \in Digits \cup {"."}

\* How read_csv classifies one cell.
CellKind(t) ==
    IF t \in NA_VALUES THEN "nan"
    ELSE IF IsIntText(t) THEN "int"
    ELSE IF IsFloatText(t) THEN "float"
    ELSE "str"

\* A Python str held in a DataFrame.
Str(t) == [k |-> "str", t |-> t]

\* float('nan') held in a DataFrame.
NaN == [k |-> "nan", t |-> <<>>]

\* The float64 value of a cell of kind int or float, as to_csv writes it.
FloatText(t) ==
    IF IsIntText(t) THEN StripLeadingZeros(t) \o <<".", "0">>
    ELSE LET d  == CHOOSE i \in Positions(t, ".") : TRUE
             ip == SubSeq(t, 1, d - 1)
             fp == StripTrailingZeros(SubSeq(t, d + 1, Len(t)))
         IN  (IF ip = <<>> THEN <<"0">> ELSE StripLeadingZeros(ip))
               \o <<".">> \o (IF fp = <<>> THEN <<"0">> ELSE fp)

\* The dtype read_csv infers for a column with these cell texts.
ColumnDtype(cells) ==
    LET kinds == {CellKind(cells[i]) : i \in 1..Len(cells)}
    IN  IF kinds = {} THEN "object"
        ELSE IF kinds = {"int"} THEN "int64"
        ELSE IF kinds \subseteq {"int", "float", "nan"} THEN "float64"
        ELSE "object"

\* The values read_csv gives a column with these cell texts.
ReadColumn(cells) ==
    LET dtype == ColumnDtype(cells)
    IN  [i \in 1..Len(cells) |->
            IF CellKind(cells[i]) = "nan" THEN NaN
            ELSE IF dtype = "int64"
                 THEN [k |-> "int", t |-> StripLeadingZeros(cells[i])]
            ELSE IF dtype = "float64"
                 THEN [k |-> "float", t |-> FloatText(cells[i])]
            ELSE Str(cells[i])]

\* pd.read_csv(file): the DataFrame of a file with these columns.
read_csv(file, columns) ==
    LET col == [c \in columns |->
                  ReadColumn([j \in 1..Len(file) |-> file[j][c]])]
    IN  [i \in 1..Len(file) |-> [c \in columns |-> col[c][i]]]

\* df.to_csv(file, index=False): the rows the file then holds.
to_csv(df) == [i \in 1..Len(df) |-> [c \in DOMAIN df[i] |-> df[i][c].t]]

\* `x in df[column].values` and `df[column] == x` for a Python str x: a str
\* equals only a str of the same text, never an int64, a float64 or NaN.
PyEq(v, x) == v.k = "str" /\ v.t = x


(***************************************************************************)
(* Program constants and pure functions of app.py.                         *)
(***************************************************************************)
USERS_COLUMNS == {"username", "password_hash"}

MESSAGES_COLUMNS == {"timestamp", "username", "message", "type"}

\* bytes of the header row "username,password_hash\n"
USERS_HEADER_BYTES == 23

\* bytes of the header row "timestamp,username,message,type\n"
MESSAGES_HEADER_BYTES == 32

ALLOWED_EXTENSIONS ==
    {<<"p", "n", "g">>, <<"j", "p", "g">>, <<"j", "p", "e", "g">>, <<"g", "i", "f">>}

MAX_DATA_SIZE == 400 * 1024 * 1024

\* the two values of the type column that the program writes itself
TEXT == <<"t", "e", "x", "t">>

IMAGE == <<"i", "m", "a", "g", "e">>

\* filename.rsplit('.', 1)[1]: the text after the last '.'
\* (only used where '.' is in the filename)
RsplitExt(filename) ==
    SubSeq(filename, MaxOf(Positions(filename, ".")) + 1, Len(filename))

\* allowed_file without its test of the extension
allowed_file_any_extension(filename) ==
    Positions(filename, ".") # {}

allowed_file(filename) ==
    /\ Positions(filename, ".") # {}
    /\ Lower(RsplitExt(filename)) \in ALLOWED_EXTENSIONS

\* hashlib.sha256(password.encode()).hexdigest(): a digest is a text that
\* depends on the password only and that different passwords may share; the
\* model's digest is "h" and the password's first character.  It always has
\* a letter, as a hex digest of 64 characters does in practice, so that
\* read_csv keeps the password_hash column as str.
hash_password(password) == <<"h", Head(password)>>

\* datetime.now().isoformat() at clock reading n
IsoFormat(n) == <<"T", DigitChar(n)>>

\* werkzeug's secure_filename on the model's alphabet: characters outside
\* [A-Za-z0-9_.-] are dropped (path separators among them) and leading and
\* trailing '.' and '_' are stripped.
SafeChars ==
    Digits \cup {"c", "p", "n", "g", "t", "x", "P", "N", "G", "T", "X", ".", "_"}

RECURSIVE StripDots(_)
StripDots(t) ==
    IF Len(t) > 0 /\ Head(t) \in {".", "_"} THEN StripDots(Tail(t))
    ELSE IF Len(t) > 0 /\ t[Len(t)] \in {".", "_"}
         THEN StripDots(SubSeq(t, 1, Len(t) - 1))
    ELSE t

secure_filename(t) == StripDots(SelectSeq(t, LAMBDA c : c \in SafeChars))

\* secure_filename(f"{datetime.now().timestamp()}_{file.filename}")
StoredName(n, filename) == secure_filename(<<DigitChar(n), "_">> \o filename)

(***************************************************************************)
(* State.                                                                  *)
(***************************************************************************)
VARIABLES
    users,      \* data/users.csv: its rows, each [username, password_hash]
    messages,   \* data/messages.csv: its rows
    uploads,    \* data/uploads: the set of its files [filename, size]
    clock,      \* the last reading of datetime.now()
    req,        \* per handler thread: the request in progress, its locals
                \* and, at pc = "return", the response it returns
    guard,      \* per handler thread: whether check_and_clear_data has run in
                \* the request in progress, and whether it reclaimed
    registered, \* the [username, password] of every register that returned success
    undeletable \* names of files of data/uploads whose os.unlink raises

vars == <<users, messages, uploads, clock, req, guard, registered, undeletable>>

Procs == 1..NumProcs

\* No request in progress on a thread.
Idle ==
    [pc |-> "idle", username |-> <<>>, arg |-> <<>>, type |-> <<>>, size |-> 0,
     df |-> <<>>, filename |-> <<>>,
     response |-> [op |-> "", username |-> <<>>, status |-> 0, error |-> ""]]

\* jsonify(...), status; username is kept for the responses of register
Response(op, username, status, error) ==
    [op |-> op, username |-> username, status |-> status, error |-> error]

\* no response yet: the handler goes on to its file operations
Continue == Response("", <<>>, 0, "")

NoGuard == [ran |-> FALSE, reclaimed |-> FALSE]

Init ==
    /\ users = <<>>
    /\ messages = <<>>
    /\ uploads = {}
    /\ clock = 0
    /\ req = [p \in Procs |-> Idle]
    /\ guard = [p \in Procs |-> NoGuard]
    /\ registered = {}
    /\ undeletable = {}

\* The handler on thread p returns this response.
Return(p, response) ==
    req' = [req EXCEPT ![p].pc = "return", ![p].response = response]

\* The response is sent and the thread is free for the next request.
respond(p) ==
    /\ req[p].pc = "return"
    /\ req' = [req EXCEPT ![p] = Idle]
    /\ guard' = [guard EXCEPT ![p] = NoGuard]
    /\ UNCHANGED <<users, messages, uploads, clock, registered, undeletable>>

(***************************************************************************)
(* Retention guard.                                                        *)
(***************************************************************************)
\* bytes of one row of a CSV file: per cell its text and a comma or the
\* line break
RECURSIVE RowBytes(_, _)
RowBytes(row, columns) ==
    IF columns = {} THEN 0
    ELSE LET c == CHOOSE x \in columns : TRUE
         IN  Len(row[c]) + 1 + RowBytes(row, columns \ {c})

\* os.path.getsize of a CSV file without its header row
RECURSIVE RowsBytes(_, _)
RowsBytes(rows, columns) ==
    IF rows = <<>> THEN 0
    ELSE RowBytes(Head(rows), columns) + RowsBytes(Tail(rows), columns)

\* the sizes of the files of data/uploads, summed
RECURSIVE FilesBytes(_)
FilesBytes(files) ==
    IF files = {} THEN 0
    ELSE LET f == CHOOSE x \in files : TRUE
         IN  f.size + FilesBytes(files \ {f})

\* os.walk('data'): users.csv, messages.csv and every file of uploads/
get_data_size ==
    USERS_HEADER_BYTES + RowsBytes(users, USERS_COLUMNS)
      + MESSAGES_HEADER_BYTES + RowsBytes(messages, MESSAGES_COLUMNS)
      + FilesBytes(uploads)

\* clear_data without the loop over the upload directory
clear_data_messages_only ==
    /\ messages' = <<>>
    /\ uploads' = uploads

\* clear_data whose loop ends at the first os.unlink that raises
clear_data_abort_on_failure ==
    /\ messages' = <<>>
    /\ uploads' = IF \E f \in uploads : f.filename \in undeletable
                  THEN uploads
                  ELSE {}

\* The environment makes a stored file undeletable: from now on os.unlink of
\* it raises (lines 61-62 log the exception and go on).
unlink_denied ==
    /\ \E f \in uploads :
          /\ f.filename \notin undeletable
          /\ undeletable' = undeletable \cup {f.filename}
    /\ UNCHANGED <<users, messages, uploads, clock, req, guard, registered>>

\* The header-only messages.csv and the uploads directory after the loop of
\* os.unlink: a file whose deletion raises is logged and stays.
clear_data ==
    /\ messages' = <<>>
    /\ uploads' = {f \in uploads : f.filename \in undeletable}

\* check_and_clear_data reclaiming from the ceiling on
check_and_clear_data_at_ceiling(p) ==
    LET current_size == get_data_size
    IN  /\ IF current_size >= MAX_DATA_SIZE
           THEN clear_data
           ELSE UNCHANGED <<messages, uploads>>
        /\ guard' = [guard EXCEPT ![p] =
                        [ran |-> TRUE, reclaimed |-> current_size >= MAX_DATA_SIZE]]

\* check_and_clear_data reclaiming only above twice the ceiling
check_and_clear_data_twice_ceiling(p) ==
    LET current_size == get_data_size
    IN  /\ IF current_size > 2 * MAX_DATA_SIZE
           THEN clear_data
           ELSE UNCHANGED <<messages, uploads>>
        /\ guard' = [guard EXCEPT ![p] =
                        [ran |-> TRUE, reclaimed |-> current_size > 2 * MAX_DATA_SIZE]]

check_and_clear_data(p) ==
    LET current_size == get_data_size
    IN  /\ IF current_size > MAX_DATA_SIZE
           THEN clear_data
           ELSE UNCHANGED <<messages, uploads>>
        /\ guard' = [guard EXCEPT ![p] =
                        [ran |-> TRUE, reclaimed |-> current_size > MAX_DATA_SIZE]]

(***************************************************************************)
(* POST /api/register                                                      *)
(***************************************************************************)
\* pd.concat with the new row ahead of the table
concat_row_first(df, row) == <<row>> \o df

\* pd.concat([df, new_row], ignore_index=True)
concat(df, row) == Append(df, row)

\* `username in users['username'].values`
\* (and `not users[users['username'] == username].empty`)
UserFound(df, username) == \E i \in 1..Len(df) : PyEq(df[i].username, username)

\* lines 83-96: what register answers before it writes; Continue when it
\* goes on to write.  json is FALSE for a request without a JSON body; an
\* empty text is a field that is missing or empty (both fail `not x`).
register_validate(file, json, username, password) ==
    IF ~json
    THEN Response("register", username, 400, "No JSON data received")
    ELSE IF username = <<>> \/ password = <<>>
    THEN Response("register", username, 400, "Username and password are required")
    ELSE IF UserFound(read_csv(file, USERS_COLUMNS), username)
    THEN Response("register", username, 400, "Username already exists")
    ELSE Continue

\* lines 83-104: validation, the read of users.csv, the duplicate check and
\* the new row
register(p, json, username, password) ==
    /\ req[p].pc = "idle"
    /\ Len(users) < MaxUsers
    /\ UNCHANGED <<users, messages, uploads, clock, guard, registered, undeletable>>
    /\ LET response == register_validate(users, json, username, password)
       IN  IF response # Continue
           THEN Return(p, response)
           ELSE /\ req' = [req EXCEPT ![p] =
                              [Idle EXCEPT !.pc = "register_write",
                                           !.username = username,
                                           !.arg = password,
                                           !.df = concat(read_csv(users, USERS_COLUMNS),
                                                    [username |-> Str(username),
                                                     password_hash |->
                                                       Str(hash_password(password))])]]

\* lines 105-107: users.to_csv(USERS_FILE) and the success response
register_write(p) ==
    /\ req[p].pc = "register_write"
    /\ users' = to_csv(req[p].df)
    /\ registered' = registered \cup
                       {[username |-> req[p].username, password |-> req[p].arg]}
    /\ UNCHANGED <<messages, uploads, clock, guard, undeletable>>
    /\ Return(p, Response("register", req[p].username, 200, ""))

(***************************************************************************)
(* POST /api/login                                                         *)
(***************************************************************************)
\* lines 114-134: what login answers on this users.csv
login_response(file, json, username, password) ==
    IF ~json
    THEN Response("login", <<>>, 400, "No JSON data received")
    ELSE IF username = <<>> \/ password = <<>>
    THEN Response("login", <<>>, 400, "Username and password are required")
    ELSE LET df   == read_csv(file, USERS_COLUMNS)
             user == SelectSeq(df, LAMBDA r : PyEq(r.username, username))
         IN  IF user = <<>>
                  \/ ~PyEq(user[1].password_hash, hash_password(password))
             THEN Response("login", <<>>, 401, "Invalid username or password")
             ELSE Response("login", <<>>, 200, "")

login(p, json, username, password) ==
    /\ req[p].pc = "idle"
    /\ UNCHANGED <<users, messages, uploads, clock, guard, registered, undeletable>>
    /\ Return(p, login_response(users, json, username, password))

(***************************************************************************)
(* POST /api/upload                                                        *)
(***************************************************************************)
\* file.filename of a multipart form without the 'file' part
NoFilePart == <<"-">>

\* upload_validate with the user check that send_message makes
upload_validate_registered(file, username) ==
    IF file = NoFilePart
    THEN Response("upload_image", <<>>, 400, "No file part")
    ELSE IF username = <<>>
    THEN Response("upload_image", <<>>, 400, "Username is required")
    ELSE IF ~UserFound(read_csv(users, USERS_COLUMNS), username)
    THEN Response("upload_image", <<>>, 401, "User not found")
    ELSE IF file = <<>>
    THEN Response("upload_image", <<>>, 400, "No selected file")
    ELSE IF ~allowed_file(file)
    THEN Response("upload_image", <<>>, 400, "File type not allowed")
    ELSE Continue

\* lines 141-153 and 178: what upload_image answers before it touches the
\* data directory; Continue when it goes on
upload_validate(file, username) ==
    IF file = NoFilePart
    THEN Response("upload_image", <<>>, 400, "No file part")
    ELSE IF username = <<>>
    THEN Response("upload_image", <<>>, 400, "Username is required")
    ELSE IF file = <<>>
    THEN Response("upload_image", <<>>, 400, "No selected file")
    ELSE IF allowed_file(file)
    THEN Continue
    ELSE Response("upload_image", <<>>, 400, "File type not allowed")

\* lines 141-155: validation, allowed_file and check_and_clear_data
\* upload_image with check_and_clear_data called ahead of the validation
upload_image_guard_first(p, file, username, size) ==
    /\ req[p].pc = "idle"
    /\ Len(messages) < MaxMessages
    /\ clock + 2 <= MaxClock
    /\ UNCHANGED <<users, clock, registered, undeletable>>
    /\ check_and_clear_data(p)
    /\ LET response == upload_validate(file, username)
       IN  IF response # Continue
           THEN Return(p, response)
           ELSE req' = [req EXCEPT ![p] =
                           [Idle EXCEPT !.pc = "upload_save",
                                        !.username = username,
                                        !.arg = file,
                                        !.size = size]]

upload_image(p, file, username, size) ==
    /\ req[p].pc = "idle"
    /\ Len(messages) < MaxMessages
    /\ clock + 2 <= MaxClock
    /\ UNCHANGED <<users, clock, registered, undeletable>>
    /\ LET response == upload_validate(file, username)
       IN  IF response # Continue
           THEN /\ UNCHANGED <<messages, uploads, guard>>
                /\ Return(p, response)
           ELSE /\ check_and_clear_data(p)
                /\ req' = [req EXCEPT ![p] =
                              [Idle EXCEPT !.pc = "upload_save",
                                           !.username = username,
                                           !.arg = file,
                                           !.size = size]]

\* lines 157-159: the stored name and file.save(filepath)
upload_save(p) ==
    /\ req[p].pc = "upload_save"
    /\ clock < MaxClock
    /\ clock' = clock + 1
    /\ LET filename == StoredName(clock', req[p].arg)
       IN  /\ uploads' = {f \in uploads : f.filename # filename}
                           \cup {[filename |-> filename, size |-> req[p].size]}
           /\ req' = [req EXCEPT ![p].pc = "upload_read",
                                 ![p].filename = filename]
    /\ UNCHANGED <<users, messages, guard, registered, undeletable>>

\* lines 162-170: the read of messages.csv and the new row
upload_read(p) ==
    /\ req[p].pc = "upload_read"
    /\ clock < MaxClock
    /\ clock' = clock + 1
    /\ req' = [req EXCEPT ![p].pc = "upload_write",
                          ![p].df =
                             concat(read_csv(messages, MESSAGES_COLUMNS),
                                    [timestamp |-> Str(IsoFormat(clock')),
                                     username  |-> Str(req[p].username),
                                     message   |-> Str(req[p].filename),
                                     type      |-> Str(IMAGE)])]
    /\ UNCHANGED <<users, messages, uploads, guard, registered, undeletable>>

\* lines 171-176: messages.to_csv(MESSAGES_FILE) and the success response
upload_write(p) ==
    /\ req[p].pc = "upload_write"
    /\ messages' = to_csv(req[p].df)
    /\ UNCHANGED <<users, uploads, clock, guard, registered, undeletable>>
    /\ Return(p, Response("upload_image", <<>>, 200, ""))

\* lines 162, 179-180: pd.read_csv of messages.csv raises after file.save;
\* the except clause answers 500
upload_read_fails(p) ==
    /\ req[p].pc = "upload_read"
    /\ UNCHANGED <<users, messages, uploads, clock, guard, registered, undeletable>>
    /\ Return(p, Response("upload_image", <<>>, 500, "read_csv failed"))

\* upload_write_fails followed by the removal of the saved file
upload_write_fails_cleanup(p) ==
    /\ req[p].pc = "upload_write"
    /\ uploads' = {f \in uploads : f.filename # req[p].filename}
    /\ UNCHANGED <<users, messages, clock, guard, registered, undeletable>>
    /\ Return(p, Response("upload_image", <<>>, 500, "to_csv failed"))

\* lines 171, 179-180: to_csv of messages.csv raises before it changes the
\* file; the except clause answers 500
upload_write_fails(p) ==
    /\ req[p].pc = "upload_write"
    /\ UNCHANGED <<users, messages, uploads, clock, guard, registered, undeletable>>
    /\ Return(p, Response("upload_image", <<>>, 500, "to_csv failed"))

(***************************************************************************)
(* GET /api/messages                                                       *)
(***************************************************************************)
\* lines 192-195: the records GET /api/messages returns on this messages.csv:
\* messages['type'].fillna('text'), then to_dict('records')
get_messages_body(file) ==
    LET df == read_csv(file, MESSAGES_COLUMNS)
    IN  [i \in 1..Len(df) |->
            [df[i] EXCEPT !.type = IF @.k = "nan" THEN Str(TEXT) ELSE @]]

get_messages(p) ==
    /\ req[p].pc = "idle"
    /\ UNCHANGED <<users, messages, uploads, clock, guard, registered, undeletable>>
    /\ Return(p, Response("get_messages", <<>>, 200, ""))

(***************************************************************************)
(* GET /api/images/<filename>                                              *)
(***************************************************************************)
\* lines 184-187: send_file on the path of the file; on a path that names no
\* file it raises, and the except clause answers with the text of the
\* exception and status 500
get_image_response(files, filename) ==
    IF \E f \in files : f.filename = filename
    THEN Response("get_image", <<>>, 200, "")
    ELSE Response("get_image", <<>>, 500, "No such file or directory")

get_image(p, filename) ==
    /\ req[p].pc = "idle"
    /\ UNCHANGED <<users, messages, uploads, clock, guard, registered, undeletable>>
    /\ req' = [req EXCEPT ![p].pc = "return",
                          ![p].filename = filename,
                          ![p].response = get_image_response(uploads, filename)]

(***************************************************************************)
(* POST /api/messages                                                      *)
(***************************************************************************)
\* 'type' of a JSON body without that key
Absent == <<"-">>

\* data.get('type', 'text')
GetType(type) == IF type = Absent THEN TEXT ELSE type

\* send_message_validate without the lookup of the username in users.csv
send_message_validate_any_user(file, json, username, message) ==
    IF ~json
    THEN Response("send_message", <<>>, 400, "No JSON data received")
    ELSE IF username = <<>> \/ message = <<>>
    THEN Response("send_message", <<>>, 400, "Username and message are required")
    ELSE Continue

\* lines 202-216: what send_message answers before it touches the data
\* directory; Continue when it goes on
send_message_validate(file, json, username, message) ==
    IF ~json
    THEN Response("send_message", <<>>, 400, "No JSON data received")
    ELSE IF username = <<>> \/ message = <<>>
    THEN Response("send_message", <<>>, 400, "Username and message are required")
    ELSE IF ~UserFound(read_csv(file, USERS_COLUMNS), username)
    THEN Response("send_message", <<>>, 401, "User not found")
    ELSE Continue

\* lines 202-216: validation, the read of users.csv and the user check
send_message(p, json, username, message, type) ==
    /\ req[p].pc = "idle"
    /\ Len(messages) < MaxMessages
    /\ clock + 1 <= MaxClock
    /\ UNCHANGED <<users, messages, uploads, clock, guard, registered, undeletable>>
    /\ LET response == send_message_validate(users, json, username, message)
       IN  IF response # Continue
           THEN Return(p, response)
           ELSE /\ req' = [req EXCEPT ![p] =
                              [Idle EXCEPT !.pc = "send_check",
                                           !.username = username,
                                           !.arg = message,
                                           !.type = GetType(type)]]

\* send_check without the call of check_and_clear_data
send_check_unguarded(p) ==
    /\ req[p].pc = "send_check"
    /\ clock < MaxClock
    /\ clock' = clock + 1
    /\ req' = [req EXCEPT ![p].pc = "send_read",
                          ![p].df = <<[timestamp |-> Str(IsoFormat(clock')),
                                       username  |-> Str(req[p].username),
                                       message   |-> Str(req[p].arg),
                                       type      |-> Str(req[p].type)]>>]
    /\ UNCHANGED <<users, messages, uploads, guard, registered, undeletable>>

\* lines 219-227: check_and_clear_data and the new row
send_check(p) ==
    /\ req[p].pc = "send_check"
    /\ clock < MaxClock
    /\ clock' = clock + 1
    /\ check_and_clear_data(p)
    /\ req' = [req EXCEPT ![p].pc = "send_read",
                          ![p].df = <<[timestamp |-> Str(IsoFormat(clock')),
                                       username  |-> Str(req[p].username),
                                       message   |-> Str(req[p].arg),
                                       type      |-> Str(req[p].type)]>>]
    /\ UNCHANGED <<users, registered, undeletable>>

\* lines 229-230: the read of messages.csv and the concat
send_read(p) ==
    /\ req[p].pc = "send_read"
    /\ req' = [req EXCEPT ![p].pc = "send_write",
                          ![p].df = concat(read_csv(messages, MESSAGES_COLUMNS),
                                           req[p].df[1])]
    /\ UNCHANGED <<users, messages, uploads, clock, guard, registered, undeletable>>

\* lines 231-233: messages.to_csv(MESSAGES_FILE) and the success response
\* send_write as an atomic append of the request's row to the file
send_write_append(p) ==
    /\ req[p].pc = "send_write"
    /\ messages' = messages \o to_csv(<<req[p].df[Len(req[p].df)]>>)
    /\ UNCHANGED <<users, uploads, clock, guard, registered, undeletable>>
    /\ Return(p, Response("send_message", <<>>, 200, ""))

send_write(p) ==
    /\ req[p].pc = "send_write"
    /\ messages' = to_csv(req[p].df)
    /\ UNCHANGED <<users, uploads, clock, guard, registered, undeletable>>
    /\ Return(p, Response("send_message", <<>>, 200, ""))

(***************************************************************************)
(* Request inputs.                                                         *)
(***************************************************************************)
\* bytes the row of an upload adds to messages.csv
UploadRowBytes(username, filename) ==
    RowBytes([timestamp |-> IsoFormat(0), username |-> username,
              message |-> StoredName(0, filename), type |-> IMAGE],
             MESSAGES_COLUMNS)

\* The sizes of the uploaded blob that the model tries: one byte and, for
\* each d in over, the size that brings the data directory to d bytes over
\* the ceiling once the request has written its row.
BlobSizes(username, filename, over) ==
    LET fill == MAX_DATA_SIZE - (get_data_size + UploadRowBytes(username, filename))
    IN  {1} \cup {fill + d : d \in {x \in over : fill + x > 0}}

\* JSON bodies {username, password}: none, and every pair of these texts
Bodies(first, second) ==
    {[json |-> FALSE, a |-> <<>>, b |-> <<>>]}
      \cup {[json |-> TRUE, a |-> x, b |-> y] : x \in first, y \in second}

\* multipart forms: without a file part, and every pair of a filename and a username
Forms(filenames, usernames) ==
    {[file |-> NoFilePart, username |-> <<>>]}
      \cup {[file |-> f, username |-> u] : f \in filenames, u \in usernames}

\* The inputs of the requests served one at a time.
SeqInputs ==
    [usernames |-> {<<>>, <<"a", "l">>, <<"7">>, <<"0", "7">>},
     register_passwords |-> {<<>>, <<"p">>},
     login_passwords |-> {<<>>, <<"p">>, <<"q">>, <<"p", "x">>},
     messages |-> {<<>>, <<"h", "i">>, <<"0", "7">>},
     types |-> {Absent, IMAGE},
     filenames |-> {<<>>, <<"c", ".", "P", "N", "G">>, <<"c", ".", "t", "x", "t">>,
                    <<"p", "n", "g">>},
     over |-> {0, 1},
     images |-> {<<"1", "_", "c", ".", "P", "N", "G">>, <<"x", ".", "p", "n", "g">>}]

\* The inputs of the requests served concurrently: the fields of every JSON
\* body and form are present, and no upload fills the data directory.
ConcInputs ==
    [usernames |-> {<<"a", "l">>, <<"7">>},
     register_passwords |-> {<<"p">>},
     login_passwords |-> {<<"p">>},
     messages |-> {<<"h", "i">>},
     types |-> {Absent},
     filenames |-> {<<"c", ".", "P", "N", "G">>},
     over |-> {},
     images |-> {<<"x", ".", "p", "n", "g">>}]

(***************************************************************************)
(* Specifications.                                                         *)
(***************************************************************************)
\* The steps of the handler thread p on requests with inputs in.
Handler(p, in) ==
    \/ /\ req[p].pc = "idle"
       /\ \E d \in Bodies(in.usernames, in.register_passwords) :
             register(p, d.json, d.a, d.b)
    \/ register_write(p)
    \/ /\ req[p].pc = "idle"
       /\ \E d \in Bodies(in.usernames, in.login_passwords) :
             login(p, d.json, d.a, d.b)
    \/ /\ req[p].pc = "idle"
       /\ \E d \in Forms(in.filenames, in.usernames) :
             \E size \in BlobSizes(d.username, d.file, in.over) :
                upload_image(p, d.file, d.username, size)
    \/ upload_save(p)
    \/ upload_read(p)
    \/ upload_write(p)
    \/ get_messages(p)
    \/ /\ req[p].pc = "idle"
       /\ \E filename \in in.images : get_image(p, filename)
    \/ /\ req[p].pc = "idle"
       /\ \E d \in Bodies(in.usernames, in.messages), t \in in.types :
             send_message(p, d.json, d.a, d.b, t)
    \/ send_check(p)
    \/ send_read(p)
    \/ send_write(p)
    \/ respond(p)

\* Requests served one at a time.
SeqNext == Handler(1, SeqInputs)

SeqSpec == Init /\ [][SeqNext]_vars

\* Requests served by concurrent threads, interleaved at each file operation.
Next == \E p \in Procs : Handler(p, ConcInputs)

Spec == Init /\ [][Next]_vars


\* The inputs of the requests that post with a type field: a registered
\* user posts texts, the name of a stored file, and types inside and outside
\* the two of the enum.
PostInputs ==
    [usernames |-> {<<"a", "l">>},
     register_passwords |-> {<<"p">>},
     login_passwords |-> {<<"p">>},
     messages |-> {<<"h", "i">>, <<"1", "_", "c", ".", "P", "N", "G">>},
     types |-> {Absent, TEXT, IMAGE, <<>>, <<"v", "i", "d", "e", "o">>},
     filenames |-> {<<"c", ".", "P", "N", "G">>},
     over |-> {1},
     images |-> {<<"1", "_", "c", ".", "P", "N", "G">>}]

PostNext == Handler(1, PostInputs)

PostSpec == Init /\ [][PostNext]_vars

\* The inputs of the requests served while file operations may fail.
FailInputs ==
    [usernames |-> {<<"a", "l">>},
     register_passwords |-> {<<"p">>},
     login_passwords |-> {<<"p">>},
     messages |-> {<<"h", "i">>},
     types |-> {Absent},
     filenames |-> {<<"c", ".", "P", "N", "G">>},
     over |-> {1},
     images |-> {<<"x", ".", "p", "n", "g">>}]

\* Requests served one at a time; a read or write of messages.csv after
\* file.save may raise, and the deletion of a stored file may be denied.
FailNext ==
    \/ Handler(1, FailInputs)
    \/ upload_read_fails(1)
    \/ upload_write_fails(1)
    \/ unlink_denied

FailSpec == Init /\ [][FailNext]_vars

\* The inputs of the requests that fill the data directory exactly to the
\* ceiling and 100 bytes over it (more than the two CSV headers and a row of
\* users.csv take), with a username that read_csv parses as a number.
SizeInputs ==
    [usernames |-> {<<"a", "l">>, <<".", "5">>},
     register_passwords |-> {<<"p">>},
     login_passwords |-> {<<"p">>},
     messages |-> {<<"h", "i">>},
     types |-> {Absent},
     filenames |-> {<<"c", ".", "P", "N", "G">>},
     over |-> {0, 100},
     images |-> {<<"x", ".", "p", "n", "g">>}]

SizeNext == Handler(1, SizeInputs)

SizeSpec == Init /\ [][SizeNext]_vars

(***************************************************************************)
(* Vocabulary of the properties.                                           *)
(***************************************************************************)
\* the usernames of the rows of data/users.csv, as the file spells them
StoreUsernames == {users[i].username : i \in 1..Len(users)}

\* non-empty texts a request may carry as a username, a password, a message
SomeUsernames ==
    {<<"a", "l">>, <<"b">>, <<"7">>, <<"0", "7">>, <<"7", ".", "0">>, <<"N", "A">>}

SomePasswords == {<<"p">>, <<"q">>, <<"p", "x">>}

SomeMessages == {<<"h", "i">>, <<"0", "7">>, <<"N", "A">>}

\* the error texts of app.py by the error kinds of the specification
DuplicateUsername == "Username already exists"

InvalidCredentials == "Invalid username or password"

UnknownUser == "User not found"

DisallowedExtension == "File type not allowed"

\* Thread p is about to send the success response of one of these handlers.
Succeeded(p, ops) ==
    /\ req[p].pc = "return"
    /\ req[p].response.op \in ops
    /\ req[p].response.status = 200

(***************************************************************************)
(* C1.  In every reachable state, also after any interleaving of           *)
(* concurrent register requests, no two rows of data/users.csv have the    *)
(* same username.                                                          *)
(* Fails: register("7", "p") twice.  read_csv reads the username column    *)
(* of the first row as the int64 7, `"7" in users['username'].values` is   *)
(* False, and the second request appends a second row 7.                   *)
(***************************************************************************)
C1_UniqueUsernames ==
    \A i, j \in 1..Len(users) :
        i # j => users[i].username # users[j].username

(***************************************************************************)
(* C2.  For non-empty u, p, p2: register(u, p) on a store without u        *)
(* succeeds, and register(u, p2) run right after it is answered            *)
(* DuplicateUsername (400) and writes nothing.  Stated in the state in     *)
(* which the first request returns its success: a register of a username   *)
(* not in the file is not rejected, and a register of the username just    *)
(* registered is answered 400 "Username already exists" (the answer that   *)
(* returns before users.csv is written).                                   *)
(* Fails: register("7", "p") then register("7", "q").                      *)
(***************************************************************************)
C2_SecondRegisterIsDuplicate ==
    /\ \A u \in SomeUsernames \ StoreUsernames, pw \in SomePasswords :
          register_validate(users, TRUE, u, pw) = Continue
    /\ \A p \in Procs :
          (/\ Succeeded(p, {"register"})
           /\ \A i \in 1..(Len(users) - 1) :
                 users[i].username # req[p].response.username)
          => \A pw \in SomePasswords :
                register_validate(users, TRUE, req[p].response.username, pw)
                  = Response("register", req[p].response.username, 400,
                             DuplicateUsername)

(***************************************************************************)
(* C3.  Once register(u, p) has returned success, in every later state     *)
(* login(u, p) returns success, and login(u, q) with a digest other than   *)
(* that of p returns InvalidCredentials (401), as does the login of a      *)
(* username that was never registered.                                     *)
(* Fails: register("7", "p") then login("7", "p"), which answers 401: the  *)
(* username column is read as int64 and `users['username'] == "7"`         *)
(* selects no row.                                                         *)
(***************************************************************************)
C3_LoginAfterRegister ==
    /\ \A r \in registered :
          /\ login_response(users, TRUE, r.username, r.password).status = 200
          /\ \A q \in SomePasswords :
                hash_password(q) # hash_password(r.password)
                => login_response(users, TRUE, r.username, q)
                     = Response("login", <<>>, 401, InvalidCredentials)
    /\ \A u \in SomeUsernames, q \in SomePasswords :
          (\A r \in registered : r.username # u)
          => login_response(users, TRUE, u, q)
               = Response("login", <<>>, 401, InvalidCredentials)

(***************************************************************************)
(* C4.  A row of data/users.csv is never changed and never deleted: once   *)
(* register(u, p) has returned success, the row (u, digest(p)) is in the   *)
(* file in every later state.                                              *)
(* Fails: register("07", "p") then register("al", "p").  The second        *)
(* request reads the username 07 as the int64 7 and writes the row back    *)
(* as 7.                                                                   *)
(***************************************************************************)
C4_UserRowsKept ==
    \A r \in registered :
        \E i \in 1..Len(users) :
            users[i] = [username |-> r.username,
                        password_hash |-> hash_password(r.password)]


(***************************************************************************)
(* Steps of a request, as the properties name them.                        *)
(***************************************************************************)
\* check_and_clear_data runs on thread p in this step.
GuardStep(p) == ~guard[p].ran /\ guard'[p].ran

\* Thread p returns the success of send_message or upload_image in this step.
WriteReturns(p) ==
    /\ req[p].pc \in {"send_write", "upload_write"}
    /\ req'[p].pc = "return"
    /\ req'[p].response.status = 200

\* Thread p answers a request with this error text in this step.
Rejects(p, error) ==
    /\ req[p].pc = "idle"
    /\ req'[p].pc = "return"
    /\ req'[p].response.error = error

\* the row of messages.csv that the request in progress on thread p writes
OwnRow(p, row) ==
    /\ row.timestamp # <<>>
    /\ row.username = req[p].username
    /\ row.message = (IF req[p].pc = "upload_write" THEN req[p].filename
                      ELSE req[p].arg)
    /\ row.type = (IF req[p].pc = "upload_write" THEN IMAGE ELSE req[p].type)

\* the bytes of all persisted files, counted cell by cell
RECURSIVE SumTo(_, _)
SumTo(f, n) == IF n = 0 THEN 0 ELSE f[n] + SumTo(f, n - 1)

PersistedBytes ==
    LET userBytes == [i \in 1..Len(users) |->
                         Len(users[i].username) + Len(users[i].password_hash) + 2]
        messageBytes == [i \in 1..Len(messages) |->
                            Len(messages[i].timestamp) + Len(messages[i].username)
                              + Len(messages[i].message) + Len(messages[i].type) + 4]
        names == {f.filename : f \in uploads}
        sizeOf(name) == (CHOOSE f \in uploads : f.filename = name).size
        RECURSIVE SumNames(_)
        SumNames(ns) == IF ns = {} THEN 0
                        ELSE LET n == CHOOSE x \in ns : TRUE
                             IN  sizeOf(n) + SumNames(ns \ {n})
    IN  23 + SumTo(userBytes, Len(users))
          + 32 + SumTo(messageBytes, Len(messages))
          + SumNames(names)

(***************************************************************************)
(* C5.  When the persisted size exceeds the ceiling, the next successful   *)
(* write (send_message or upload_image) triggers a reclaim, and once that  *)
(* request has completed GET /messages returns an empty list, the upload   *)
(* directory is empty and a user registered before can still log in.       *)
(* Fails as stated: the reclaim runs before the request's own write, so    *)
(* the completed request leaves its own row (and blob) behind.             *)
(***************************************************************************)
C5_EmptyAfterReclaimingWrite ==
    \A p \in Procs :
        (Succeeded(p, {"send_message", "upload_image"}) /\ guard[p].reclaimed)
        => /\ get_messages_body(messages) = <<>>
           /\ uploads = {}

(***************************************************************************)
(* C5, amended.  When the persisted size exceeds the ceiling, the next     *)
(* write request that passes validation reclaims; when it returns, the     *)
(* message log holds exactly the one row that request wrote, the upload    *)
(* directory holds exactly the blob it stored (nothing after a             *)
(* send_message), and users.csv is as it was, so that every login is       *)
(* answered as it was before the request.                                  *)
(***************************************************************************)
C5_ReclaimKeepsOnlyOwnWrite ==
    [][\A p \in Procs :
          /\ (GuardStep(p) /\ PersistedBytes > MAX_DATA_SIZE)
             => (guard'[p].reclaimed /\ messages' = <<>> /\ uploads' = {})
          /\ (WriteReturns(p) /\ guard[p].reclaimed)
             => /\ Len(messages') = 1
                /\ OwnRow(p, messages'[1])
                /\ uploads' = IF req[p].pc = "upload_write"
                              THEN {[filename |-> req[p].filename,
                                     size |-> req[p].size]}
                              ELSE {}
          /\ (req[p].pc \notin {"idle", "register_write", "return"}
                \/ req'[p].pc \notin {"idle", "register_write", "return"})
             => /\ users' = users
                /\ \A u \in SomeUsernames, pw \in SomePasswords :
                      login_response(users', TRUE, u, pw)
                        = login_response(users, TRUE, u, pw)
      ]_vars

\* A send_message that reclaimed returns while a user is registered.
C5_Witness ==
    \E p \in Procs :
        /\ Succeeded(p, {"send_message"})
        /\ guard[p].reclaimed
        /\ registered # {}

(***************************************************************************)
(* C6.  send_message with a non-empty username that no row of users.csv    *)
(* has (and a non-empty message) is answered UnknownUser (401); the        *)
(* request leaves users.csv, messages.csv and the upload directory as      *)
(* they were, so that GET /messages returns what it returned before.       *)
(***************************************************************************)
C6_UnknownUserRejected ==
    [][\A p \in Procs :
          /\ \A u \in SomeUsernames \ StoreUsernames, m \in SomeMessages :
                send_message_validate(users, TRUE, u, m)
                  = Response("send_message", <<>>, 401, UnknownUser)
          /\ Rejects(p, UnknownUser)
             => /\ UNCHANGED <<users, messages, uploads>>
                /\ get_messages_body(messages') = get_messages_body(messages)
      ]_vars

\* An UnknownUser answer while the log has a row and a user is registered.
C6_Witness ==
    \E p \in Procs :
        /\ req[p].pc = "return"
        /\ req[p].response.error = UnknownUser
        /\ messages # <<>>
        /\ users # <<>>

(***************************************************************************)
(* C7.  upload_image (of a form with a username and a named file) whose    *)
(* filename has no extension, or an extension that is not png, jpg, jpeg   *)
(* or gif in any letter case, is answered DisallowedExtension (400), adds  *)
(* no row to messages.csv and stores no file.                              *)
(***************************************************************************)
\* filenames with and without dots, in both letter cases
SomeFilenames ==
    {<<"c", ".", "P", "N", "G">>, <<"c", ".", "p", "n", "g">>,
     <<"c", ".", "t", "x", "t">>, <<"p", "n", "g">>, <<"c">>, <<"c", ".">>,
     <<".", "g", "i", "f">>, <<"c", ".", "p", "n", "g", ".", "t", "x", "t">>,
     <<"c", ".", "t", "x", "t", ".", "G", "i", "f">>, <<"c", ".", "p", "n">>,
     <<"p", "n", "g", ".", "c">>, <<"c", "g", "i", "f">>}

\* The filename ends in a dot and one of the four extensions, in any case.
HasImageExtension(f) ==
    \E e \in {<<"p", "n", "g">>, <<"j", "p", "g">>, <<"j", "p", "e", "g">>,
              <<"g", "i", "f">>} :
        /\ Len(f) > Len(e)
        /\ f[Len(f) - Len(e)] = "."
        /\ \A i \in 1..Len(e) : LowerChar(f[Len(f) - Len(e) + i]) = e[i]

C7_DisallowedExtensionRejected ==
    [][\A p \in Procs :
          /\ \A f \in SomeFilenames, u \in SomeUsernames :
                ~HasImageExtension(f)
                => upload_validate(f, u)
                     = Response("upload_image", <<>>, 400, DisallowedExtension)
          /\ Rejects(p, DisallowedExtension)
             => UNCHANGED <<users, messages, uploads>>
      ]_vars

\* A DisallowedExtension answer while the log has a row.
C7_Witness ==
    \E p \in Procs :
        /\ req[p].pc = "return"
        /\ req[p].response.error = DisallowedExtension
        /\ messages # <<>>


(***************************************************************************)
(* C8.  A successful send_message appends exactly one record with the      *)
(* given username and message to the message log and leaves the earlier    *)
(* records as they were; GET /messages then returns the records in the     *)
(* order of the file.                                                      *)
(***************************************************************************)
C8_SendAppendsOneRecord ==
    [][\A p \in Procs :
          (req[p].pc = "send_write" /\ req'[p].pc = "return" /\ ~guard[p].reclaimed)
          => /\ Len(messages') = Len(messages) + 1
             /\ \A i \in 1..Len(messages) : messages'[i] = messages[i]
             /\ OwnRow(p, messages'[Len(messages')])
             /\ LET body == get_messages_body(messages')
                IN  /\ Len(body) = Len(messages')
                    /\ \A i \in 1..Len(body) :
                          body[i].timestamp = Str(messages'[i].timestamp)
      ]_vars

(***************************************************************************)
(* C9.  Every successful send_message and upload_image runs                *)
(* check_and_clear_data before it adds its row to messages.csv or its      *)
(* file to the upload directory.                                           *)
(***************************************************************************)
C9_GuardBeforeWrite ==
    [][\A p \in Procs :
          /\ (messages' # messages /\ messages' # <<>>
                /\ req[p].pc \in {"send_write", "upload_write"}
                /\ req'[p].pc = "return")
             => guard[p].ran
          /\ (uploads' # uploads /\ uploads' # {} /\ req[p].pc = "upload_save")
             => guard[p].ran
          /\ (req'[p].pc = "return" /\ req'[p].response.status = 200
                /\ req'[p].response.op \in {"send_message", "upload_image"})
             => guard[p].ran
      ]_vars

\* Both writing requests have succeeded: the log holds a text row and an
\* image row, and the last request's guard has run.
C9_Witness ==
    \E p \in Procs :
        /\ Succeeded(p, {"send_message", "upload_image"})
        /\ guard[p].ran
        /\ \E i, j \in 1..Len(messages) :
              messages[i].type = TEXT /\ messages[j].type = IMAGE

(***************************************************************************)
(* C10.  check_and_clear_data empties messages.csv and the upload          *)
(* directory exactly when the persisted bytes exceed MAX_DATA_SIZE; at or  *)
(* below the ceiling it changes nothing, and it never changes users.csv.   *)
(***************************************************************************)
C10_ReclaimIffOverCeiling ==
    [][\A p \in Procs :
          GuardStep(p)
          => /\ users' = users
             /\ IF PersistedBytes > 400 * 1024 * 1024
                THEN messages' = <<>> /\ uploads' = {}
                ELSE messages' = messages /\ uploads' = uploads
      ]_vars

\* A check at exactly the ceiling has run and has kept the stored data.
C10_Witness ==
    \E p \in Procs :
        /\ req[p].pc = "send_read"
        /\ guard[p].ran
        /\ ~guard[p].reclaimed
        /\ PersistedBytes = 400 * 1024 * 1024
        /\ messages # <<>>
        /\ uploads # {}


(***************************************************************************)
(* C11.  upload_image does not look the username up in users.csv: an       *)
(* upload is only ever rejected for a missing file part, a missing         *)
(* username, an empty filename or a disallowed extension; with a non-empty *)
(* username that no row of users.csv has and an allowed file it returns    *)
(* success, the blob is in the upload directory and the last row of        *)
(* messages.csv is an image row with that username, whereas send_message   *)
(* with that username is answered UnknownUser.                             *)
(***************************************************************************)
C11_UploadSkipsUserCheck ==
    [][\A p \in Procs :
          /\ (req[p].pc = "idle" /\ req'[p].pc = "return"
                /\ req'[p].response.op = "upload_image")
             => req'[p].response.error
                  \in {"No file part", "Username is required", "No selected file",
                       DisallowedExtension}
          /\ (req[p].pc = "upload_write" /\ req'[p].pc = "return"
                /\ req[p].username \notin StoreUsernames)
             => /\ req'[p].response.status = 200
                /\ \E f \in uploads' : f.filename = req[p].filename
                /\ messages'[Len(messages')].username = req[p].username
                /\ messages'[Len(messages')].message = req[p].filename
                /\ messages'[Len(messages')].type = IMAGE
                /\ send_message_validate(users', TRUE, req[p].username, <<"h", "i">>)
                     = Response("send_message", <<>>, 401, UnknownUser)
      ]_vars

\* An upload with a username that was never registered has returned success
\* and its image row and its blob are stored, while another user is registered.
C11_Witness ==
    \E p \in Procs :
        /\ Succeeded(p, {"upload_image"})
        /\ users # <<>>
        /\ req[p].username \notin StoreUsernames
        /\ \A r \in registered : r.username # req[p].username
        /\ \E i \in 1..Len(messages) :
              /\ messages[i].username = req[p].username
              /\ messages[i].type = IMAGE
              /\ \E f \in uploads : f.filename = messages[i].message


(***************************************************************************)
(* C12.  send_message writes messages.csv as the table it read earlier     *)
(* plus its own row, whatever the file holds at the time of the write: a   *)
(* row that another request wrote between the read and the write is gone   *)
(* after the write.  So a lost update is reachable: two concurrent         *)
(* send_message requests of a registered user both return success and      *)
(* messages.csv holds only one of the two messages (C12_Witness).          *)
(***************************************************************************)
C12_WriteOverwritesTable ==
    [][\A p \in Procs :
          (req[p].pc = "send_write" /\ req'[p].pc = "return")
          => /\ req'[p].response.status = 200
             /\ Len(messages') = Len(req[p].df)
             /\ \A i \in 1..Len(messages) :
                   (\A k \in 1..Len(req[p].df) :
                       req[p].df[k].timestamp.t # messages[i].timestamp)
                   => \A j \in 1..Len(messages') :
                         messages'[j].timestamp # messages[i].timestamp
      ]_vars

\* Two send_message requests of a registered user have both returned
\* success, no reclaim has run, and messages.csv holds one row.
C12_Witness ==
    \E p, q \in Procs :
        /\ p # q
        /\ Succeeded(p, {"send_message"})
        /\ Succeeded(q, {"send_message"})
        /\ \E r \in registered : r.username = req[p].username
        /\ \E r \in registered : r.username = req[q].username
        /\ ~guard[p].reclaimed
        /\ ~guard[q].reclaimed
        /\ Len(messages) = 1


(***************************************************************************)
(* C13.  Every record that GET /messages returns has a type that is not    *)
(* null and is "text" or "image", whatever the bodies of the send_message  *)
(* and upload_image requests, a type field of the client included.         *)
(***************************************************************************)
C13_TypeIsTextOrImage ==
    \A i \in 1..Len(get_messages_body(messages)) :
        get_messages_body(messages)[i].type \in {Str(TEXT), Str(IMAGE)}


(***************************************************************************)
(* C14.  In every state where no request is in progress, each file of the  *)
(* upload directory is the message field of exactly one row of type        *)
(* "image" of messages.csv, after every sequence of uploads, posts and     *)
(* reclaims.                                                               *)
(***************************************************************************)
C14_FileReferencedOnce ==
    (\A p \in Procs : req[p].pc = "idle")
    => \A f \in uploads :
          Cardinality({i \in 1..Len(messages) :
                          /\ messages[i].type = IMAGE
                          /\ messages[i].message = f.filename}) = 1


(***************************************************************************)
(* C15.  GET /images/<filename> for a filename that names no file of the   *)
(* upload directory is answered with an error body and the not-found       *)
(* status 404, not with the status 500 of the catch-all.                   *)
(***************************************************************************)
C15_MissingImageNotFound ==
    \A p \in Procs :
        (/\ req[p].pc = "return"
         /\ req[p].response.op = "get_image"
         /\ ~\E f \in uploads : f.filename = req[p].filename)
        => /\ req[p].response.error # ""
           /\ req[p].response.status = 404


(***************************************************************************)
(* C16.  If upload_image has saved the blob and the read or the write of   *)
(* messages.csv that follows fails, the request is answered 500, the blob  *)
(* stays in the upload directory, no row of messages.csv names it, and     *)
(* nothing deletes it when the response is sent.                           *)
(***************************************************************************)
C16_FailedUploadLeavesOrphan ==
    [][\A p \in Procs :
          /\ (req[p].pc \in {"upload_read", "upload_write"}
                /\ req'[p].pc = "return"
                /\ req'[p].response.status # 200)
             => /\ req'[p].response.status = 500
                /\ \E f \in uploads : f.filename = req[p].filename
                /\ uploads' = uploads
                /\ messages' = messages
                /\ \A i \in 1..Len(messages') :
                      messages'[i].message # req[p].filename
          /\ (req[p].pc = "return" /\ req'[p].pc = "idle")
             => /\ uploads' = uploads
                /\ messages' = messages
      ]_vars

\* After a failed upload no request is in progress and the upload directory
\* holds a file that no row of messages.csv names.
C16_Witness ==
    /\ \A p \in Procs : req[p].pc = "idle"
    /\ \E f \in uploads :
          \A i \in 1..Len(messages) : messages[i].message # f.filename

(***************************************************************************)
(* C17.  In a reclaim, a file whose deletion fails does not end the        *)
(* reclaim: every file of the upload directory whose deletion does not     *)
(* fail is deleted, messages.csv is emptied, and the request goes on to    *)
(* its write.                                                              *)
(***************************************************************************)
C17_ReclaimSkipsFailedDeletion ==
    [][\A p \in Procs :
          (GuardStep(p) /\ PersistedBytes > MAX_DATA_SIZE)
          => /\ messages' = <<>>
             /\ uploads' = {f \in uploads : f.filename \in undeletable}
             /\ users' = users
             /\ req'[p].pc \in {"send_read", "upload_save"}
      ]_vars

\* A send_message that reclaimed has returned success with its row written;
\* the reclaim kept an undeletable file of one byte and deleted the file
\* that had filled the directory.
C17_Witness ==
    \E p \in Procs :
        /\ Succeeded(p, {"send_message"})
        /\ guard[p].reclaimed
        /\ Len(messages) = 1
        /\ uploads # {}
        /\ \A f \in uploads : f.filename \in undeletable /\ f.size = 1


(***************************************************************************)
(* C18.  Right after check_and_clear_data has returned (no deletion fails, *)
(* no other request runs), the bytes of the rows of messages.csv and of    *)
(* the files of the upload directory together do not exceed MAX_DATA_SIZE; *)
(* and when the request has then written, they exceed MAX_DATA_SIZE by at  *)
(* most the bytes of what the request wrote: its row and, for an upload,   *)
(* its blob.                                                               *)
(***************************************************************************)
\* the bytes of these rows of messages.csv and of these files
LogAndUploadBytes(rows, files) ==
    RowsBytes(rows, MESSAGES_COLUMNS) + FilesBytes(files)

C19_RejectionChangesNothing ==
    [][\A p \in Procs :
          (/\ req[p].pc # "return"
           /\ req'[p].pc = "return"
           /\ req'[p].response.op
                \in {"register", "login", "send_message", "upload_image"}
           /\ req'[p].response.status \in {400, 401})
          => /\ users' = users
             /\ messages' = messages
             /\ uploads' = uploads
             /\ ~guard[p].ran
             /\ ~guard'[p].ran
      ]_vars

\* A request has been answered with a client error while the persisted
\* bytes exceed the ceiling, and the rows and files are still there.
C19_Witness ==
    \E p \in Procs :
        /\ req[p].pc = "return"
        /\ req[p].response.status \in {400, 401}
        /\ PersistedBytes > MAX_DATA_SIZE
        /\ messages # <<>>
        /\ uploads # {}

(***************************************************************************)
(* C20.  Under sequential execution, when a send_message or upload_image   *)
(* returns success, the row it wrote is the last row of messages.csv, also *)
(* when the request reclaimed; after a reclaim that row is the only row    *)
(* and, for an upload, its file is the only file of the upload directory.  *)
(***************************************************************************)
C20_OwnRowIsLast ==
    [][\A p \in Procs :
          WriteReturns(p)
          => /\ messages' # <<>>
             /\ OwnRow(p, messages'[Len(messages')])
             /\ guard[p].reclaimed
                => /\ Len(messages') = 1
                   /\ req[p].pc = "upload_write"
                      => uploads' = {[filename |-> req[p].filename,
                                      size |-> req[p].size]}
      ]_vars

\* An upload that reclaimed has returned success: one row, one file.
C20_Witness ==
    \E p \in Procs :
        /\ Succeeded(p, {"upload_image"})
        /\ guard[p].reclaimed
        /\ Len(messages) = 1
        /\ Cardinality(uploads) = 1

====
